---- MODULE Spec2Model ----
(***************************************************************************)
(* Model of runtime/src/ancient_append_vecs.rs: the helpers that squash    *)
(* append vecs into ancient append vecs.                                   *)
(*                                                                         *)
(*   Spec         AccountsToStore::new (one closure call per step) and     *)
(*                AccountsToStore::get                                     *)
(*   SpecOracle   is_ancient / is_full_ancient on append vecs that are     *)
(*                created empty and then appended to                       *)
(*   SpecAncient  should_move_to_ancient_append_vec, called repeatedly     *)
(*                with the same current_ancient                            *)
(*                                                                         *)
(* Indices are 0-based as in the source; a Rust range a..b of a vector v   *)
(* is SubSeq(v, a + 1, b).                                                 *)
(***************************************************************************)
EXTENDS Integers, Sequences, FiniteSets, TLC

\* ---------------------------------------------------------------- bounds
MaxAccounts == 3    \* entries of the stored_accounts map
MaxSize == 2        \* largest account_size
MaxBytes == 3       \* largest available_bytes handed to new()
MaxSlot == 2        \* slots are 1..MaxSlot
MaxEntries == 2     \* AccountStorageEntry objects alive
MaxStorages == 2    \* longest SnapshotStorage handed to should_move

VARIABLES
    \* AccountsToStore::new: arguments
    stored_accounts,            \* the map, as the sequence its iter() yields
    budget,                     \* available_bytes as passed by the caller
    slot,
    \* AccountsToStore::new: locals, then the fields of Self
    available_bytes,
    hashes,
    accounts,
    index_first_item_overflow,
    pc,                         \* "for_each" | "built" | "got"
    got,                        \* per selector: None, or Some(what get() returned)
    \* the append vecs, current_ancient and the latest calls on them
    entries,                    \* AppendVecId -> AppendVec (capacity, remaining_bytes)
    current_ancient,            \* None, or Some(<<slot, id>>)
    call,                       \* latest should_move_to_ancient_append_vec call
    probe                       \* latest is_ancient / is_full_ancient call

storeVars == <<stored_accounts, budget, slot, available_bytes, hashes, accounts,
               index_first_item_overflow, pc, got>>
ancientVars == <<entries, current_ancient, call, probe>>
vars == <<stored_accounts, budget, slot, available_bytes, hashes, accounts,
          index_first_item_overflow, pc, got, entries, current_ancient, call, probe>>

\* Option<T>
None == <<>>
Some(x) == <<x>>
is_none(o) == o = <<>>

Slots == 1..MaxSlot

\* ------------------------------------------------------- AccountsToStore
Pubkeys == 1..MaxAccounts
Sizes == 0..MaxSize

\* StoredAccountMeta: the pubkey of its meta, and its hash (one per account)
StoredAccountMeta(p) == [pubkey |-> p, hash |-> <<"hash", p>>]

\* FoundStoredAccount
FoundStoredAccounts ==
    {[account |-> StoredAccountMeta(p), account_size |-> s] : p \in Pubkeys, s \in Sizes}

\* every order in which iter() can yield a HashMap<Pubkey, FoundStoredAccount>
\* of at most MaxAccounts entries: one entry per pubkey, any order
IterationOrders ==
    UNION {{f \in [1..n -> FoundStoredAccounts] :
                \A i, j \in 1..n : f[i].account.pubkey = f[j].account.pubkey => i = j}
           : n \in 0..MaxAccounts}

\* u64::saturating_sub
saturating_sub(a, b) == IF a >= b THEN a - b ELSE 0

\* the closure with the test for an earlier split left out
new_closure_no_latch(avail, first_overflow, num_accounts, hashes_len, account_size) ==
    IF avail >= account_size
    THEN [available_bytes |-> saturating_sub(avail, account_size),
          index_first_item_overflow |-> first_overflow]
    ELSE [available_bytes |-> 0,
          index_first_item_overflow |-> hashes_len]

\* the closure with > for >=: an account as large as what remains does not fit
new_closure_strict(avail, first_overflow, num_accounts, hashes_len, account_size) ==
    IF avail > account_size
    THEN [available_bytes |-> saturating_sub(avail, account_size),
          index_first_item_overflow |-> first_overflow]
    ELSE IF first_overflow = num_accounts
    THEN [available_bytes |-> 0,
          index_first_item_overflow |-> hashes_len]
    ELSE [available_bytes |-> avail,
          index_first_item_overflow |-> first_overflow]

\* the closure without the decrement of available_bytes
new_closure_no_decrement(avail, first_overflow, num_accounts, hashes_len, account_size) ==
    IF avail >= account_size
    THEN [available_bytes |-> avail,
          index_first_item_overflow |-> first_overflow]
    ELSE IF first_overflow = num_accounts
    THEN [available_bytes |-> 0,
          index_first_item_overflow |-> hashes_len]
    ELSE [available_bytes |-> avail,
          index_first_item_overflow |-> first_overflow]

\* the closure recording the split one account late
new_closure_late_split(avail, first_overflow, num_accounts, hashes_len, account_size) ==
    IF avail >= account_size
    THEN [available_bytes |-> saturating_sub(avail, account_size),
          index_first_item_overflow |-> first_overflow]
    ELSE IF first_overflow = num_accounts
    THEN [available_bytes |-> 0,
          index_first_item_overflow |-> IF hashes_len + 1 < num_accounts
                                        THEN hashes_len + 1 ELSE hashes_len]
    ELSE [available_bytes |-> avail,
          index_first_item_overflow |-> first_overflow]

\* the closure of for_each, on the locals it captures: available_bytes,
\* index_first_item_overflow and hashes.len()
new_closure(avail, first_overflow, num_accounts, hashes_len, account_size) ==
    IF avail >= account_size
    THEN [available_bytes |-> saturating_sub(avail, account_size),
          index_first_item_overflow |-> first_overflow]
    ELSE IF first_overflow = num_accounts
    THEN [available_bytes |-> 0,
          index_first_item_overflow |-> hashes_len]
    ELSE [available_bytes |-> avail,
          index_first_item_overflow |-> first_overflow]

StorageSelector == {"Primary", "Overflow"}

\* new(), up to the for_each: the locals of lines 45-49
InitStoreVars ==
    /\ stored_accounts \in IterationOrders
    /\ budget \in 0..MaxBytes
    /\ slot \in {1, MaxSlot}
    /\ available_bytes = budget
    /\ hashes = <<>>
    /\ accounts = <<>>
    /\ index_first_item_overflow = Len(stored_accounts)
    /\ pc = "for_each"
    /\ got = [storage \in StorageSelector |-> None]

IdleStoreVars ==
    /\ stored_accounts = <<>>
    /\ budget = 0
    /\ slot = 1
    /\ available_bytes = 0
    /\ hashes = <<>>
    /\ accounts = <<>>
    /\ index_first_item_overflow = 0
    /\ pc = "built"
    /\ got = [storage \in StorageSelector |-> None]

\* one account of stored_accounts.iter().for_each(..)
ForEach ==
    /\ pc = "for_each"
    /\ Len(hashes) < Len(stored_accounts)
    /\ LET account == stored_accounts[Len(hashes) + 1]
           after == new_closure(available_bytes, index_first_item_overflow,
                                Len(stored_accounts), Len(hashes), account.account_size)
       IN /\ available_bytes' = after.available_bytes
          /\ index_first_item_overflow' = after.index_first_item_overflow
          /\ hashes' = Append(hashes, account.account.hash)
          /\ accounts' = Append(accounts, <<account.account.pubkey, account.account, slot>>)
    /\ UNCHANGED <<stored_accounts, budget, slot, pc, got, ancientVars>>

\* the iterator is exhausted: Self { hashes, accounts, index_first_item_overflow }
NewReturn ==
    /\ pc = "for_each"
    /\ Len(hashes) = Len(stored_accounts)
    /\ pc' = "built"
    /\ UNCHANGED <<stored_accounts, budget, slot, available_bytes, hashes, accounts,
                   index_first_item_overflow, got, ancientVars>>

\* &v[a..b] panics when a > b or b > v.len()
in_bounds(v, a, b) == a <= b /\ b <= Len(v)

\* get with the overflow range starting one past the split
get_overflow_skips_one(storage) ==
    LET first == IF storage = "Primary" THEN 0
                 ELSE IF index_first_item_overflow < Len(accounts)
                      THEN index_first_item_overflow + 1 ELSE index_first_item_overflow
        last == IF storage = "Primary" THEN index_first_item_overflow ELSE Len(accounts)
    IN IF in_bounds(accounts, first, last) /\ in_bounds(hashes, first, last)
       THEN [panic |-> FALSE,
             accounts |-> SubSeq(accounts, first + 1, last),
             hashes |-> SubSeq(hashes, first + 1, last)]
       ELSE [panic |-> TRUE, accounts |-> <<>>, hashes |-> <<>>]

\* AccountsToStore::get on the fields of self: the two slices, or a panic
get(storage) ==
    LET first == IF storage = "Primary" THEN 0 ELSE index_first_item_overflow
        last == IF storage = "Primary" THEN index_first_item_overflow ELSE Len(accounts)
    IN IF in_bounds(accounts, first, last) /\ in_bounds(hashes, first, last)
       THEN [panic |-> FALSE,
             accounts |-> SubSeq(accounts, first + 1, last),
             hashes |-> SubSeq(hashes, first + 1, last)]
       ELSE [panic |-> TRUE, accounts |-> <<>>, hashes |-> <<>>]

\* a caller asks the built AccountsToStore for one of the two storages
Get ==
    /\ pc \in {"built", "got"}
    /\ \E storage \in StorageSelector :
          got' = [got EXCEPT ![storage] = Some(get(storage))]
    /\ pc' = "got"
    /\ UNCHANGED <<stored_accounts, budget, slot, available_bytes, hashes, accounts,
                   index_first_item_overflow, ancientVars>>

\* --------------------------------------------------------- append vecs
\* append_vec::MAXIMUM_APPEND_VEC_FILE_SIZE. Only its order relative to the
\* 2048 bytes of slop and to threshold_bytes is read by this file; the value
\* here is one that TLC's 32-bit integers hold.
MAXIMUM_APPEND_VEC_FILE_SIZE == 1073741824

get_ancient_append_vec_capacity == MAXIMUM_APPEND_VEC_FILE_SIZE - 2048

threshold_bytes == 10000

is_ancient(storage) == storage.capacity >= get_ancient_append_vec_capacity

\* is_full_ancient without the is_ancient test
is_full_ancient_any_size(storage) == storage.remaining_bytes < threshold_bytes

is_full_ancient(storage) == is_ancient(storage) /\ storage.remaining_bytes < threshold_bytes

AppendVecIds == 1..MaxEntries

\* the sizes append vecs are created with
Capacities == {get_ancient_append_vec_capacity - 1,
               get_ancient_append_vec_capacity,
               get_ancient_append_vec_capacity + 1}

\* AppendVec::new(path, create, size): nothing is stored yet
NewAppendVec(size) == [capacity |-> size, remaining_bytes |-> size]

\* the remaining_bytes an append leaves behind: either side of threshold_bytes
RemainingAfterAppend == {threshold_bytes - 1, threshold_bytes}

InitEntries == entries \in [AppendVecIds -> {NewAppendVec(c) : c \in Capacities}]

\* append vecs one byte short of the ancient capacity, and of exactly that size
InitEntriesAtBoundary ==
    entries \in [AppendVecIds ->
                    {NewAppendVec(c) : c \in {get_ancient_append_vec_capacity - 1,
                                               get_ancient_append_vec_capacity}}]

\* AppendVec::append_accounts: the capacity stays, remaining_bytes shrinks
AppendAccounts ==
    /\ \E id \in AppendVecIds, r \in RemainingAfterAppend :
          /\ r < entries[id].remaining_bytes
          /\ entries' = [entries EXCEPT ![id].remaining_bytes = r]
    /\ UNCHANGED <<storeVars, current_ancient, call, probe>>

\* the same, as the squashing of other slots does it between two calls of
\* should_move_to_ancient_append_vec: into append vecs of ancient size
AppendAccountsToAncient ==
    /\ \E id \in AppendVecIds, r \in RemainingAfterAppend :
          /\ is_ancient(entries[id])
          /\ r < entries[id].remaining_bytes
          /\ entries' = [entries EXCEPT ![id].remaining_bytes = r]
    /\ UNCHANGED <<storeVars, current_ancient, call, probe>>

CallIsAncient ==
    /\ \E id \in AppendVecIds :
          probe' = Some([fn |-> "is_ancient", storage |-> entries[id],
                         ret |-> is_ancient(entries[id])])
    /\ UNCHANGED <<storeVars, entries, current_ancient, call>>

CallIsFullAncient ==
    /\ \E id \in AppendVecIds :
          probe' = Some([fn |-> "is_full_ancient", storage |-> entries[id],
                         ret |-> is_full_ancient(entries[id])])
    /\ UNCHANGED <<storeVars, entries, current_ancient, call>>

\* ------------------------------------- should_move_to_ancient_append_vec
\* every SnapshotStorage over the live entries: distinct ids, any order
StorageIdLists ==
    UNION {{f \in [1..n -> AppendVecIds] : \A i, j \in 1..n : f[i] = f[j] => i = j}
           : n \in 0..MaxStorages}

\* Arc<AccountStorageEntry>: the id names the shared entry, accounts is its AppendVec
AccountStorageEntry(id) == [id |-> id, accounts |-> entries[id]]

\* the function without the current_ancient.is_none() test
should_move_replaces_current(all_storages, cur, s) ==
    IF Len(all_storages) = 1
    THEN LET first_storage == all_storages[1]
         IN IF is_ancient(first_storage.accounts)
            THEN IF is_full_ancient(first_storage.accounts)
                 THEN [ret |-> FALSE, current_ancient |-> cur]
                 ELSE [ret |-> FALSE, current_ancient |-> Some(<<s, first_storage.id>>)]
            ELSE [ret |-> TRUE, current_ancient |-> cur]
    ELSE [ret |-> TRUE, current_ancient |-> cur]

\* the function without the is_full_ancient test
should_move_adopts_full(all_storages, cur, s) ==
    IF is_none(cur) /\ Len(all_storages) = 1
    THEN LET first_storage == all_storages[1]
         IN IF is_ancient(first_storage.accounts)
            THEN IF FALSE
                 THEN [ret |-> FALSE, current_ancient |-> cur]
                 ELSE [ret |-> FALSE, current_ancient |-> Some(<<s, first_storage.id>>)]
            ELSE [ret |-> TRUE, current_ancient |-> cur]
    ELSE [ret |-> TRUE, current_ancient |-> cur]

\* the function looking at the first storage of any non-empty list
should_move_first_of_many(all_storages, cur, s) ==
    IF is_none(cur) /\ Len(all_storages) >= 1
    THEN LET first_storage == all_storages[1]
         IN IF is_ancient(first_storage.accounts)
            THEN IF is_full_ancient(first_storage.accounts)
                 THEN [ret |-> FALSE, current_ancient |-> cur]
                 ELSE [ret |-> FALSE, current_ancient |-> Some(<<s, first_storage.id>>)]
            ELSE [ret |-> TRUE, current_ancient |-> cur]
    ELSE [ret |-> TRUE, current_ancient |-> cur]

\* the function without the is_ancient test
should_move_adopts_any_size(all_storages, cur, s) ==
    IF is_none(cur) /\ Len(all_storages) = 1
    THEN LET first_storage == all_storages[1]
         IN IF TRUE
            THEN IF is_full_ancient(first_storage.accounts)
                 THEN [ret |-> FALSE, current_ancient |-> cur]
                 ELSE [ret |-> FALSE, current_ancient |-> Some(<<s, first_storage.id>>)]
            ELSE [ret |-> TRUE, current_ancient |-> cur]
    ELSE [ret |-> TRUE, current_ancient |-> cur]

\* the function on (all_storages, *current_ancient, slot): the value returned and
\* *current_ancient afterwards
should_move_to_ancient_append_vec(all_storages, cur, s) ==
    IF is_none(cur) /\ Len(all_storages) = 1
    THEN LET first_storage == all_storages[1]
         IN IF is_ancient(first_storage.accounts)
            THEN IF is_full_ancient(first_storage.accounts)
                 THEN [ret |-> FALSE, current_ancient |-> cur]
                 ELSE [ret |-> FALSE, current_ancient |-> Some(<<s, first_storage.id>>)]
            ELSE [ret |-> TRUE, current_ancient |-> cur]
    ELSE [ret |-> TRUE, current_ancient |-> cur]

ShouldMove ==
    /\ \E s \in Slots, ids \in StorageIdLists :
          LET all_storages == [i \in 1..Len(ids) |-> AccountStorageEntry(ids[i])]
              r == should_move_to_ancient_append_vec(all_storages, current_ancient, s)
          IN /\ current_ancient' = r.current_ancient
             /\ call' = Some([slot |-> s, all_storages |-> all_storages,
                              before |-> current_ancient, ret |-> r.ret])
    /\ UNCHANGED <<storeVars, entries, probe>>

\* ------------------------------------------- properties of AccountsToStore
NumAccounts == Len(stored_accounts)

\* account_size of the account at 0-based position i of the iteration order
SizeAt(i) == stored_accounts[i + 1].account_size

\* the sum of the footprints of the first k accounts of the iteration order
RECURSIVE SumSizes(_)
SumSizes(k) == IF k = 0 THEN 0 ELSE SumSizes(k - 1) + SizeAt(k - 1)

\* what the flat lists must hold, read off the input
ExpectedAccounts ==
    [i \in 1..NumAccounts |->
        <<stored_accounts[i].account.pubkey, stored_accounts[i].account, slot>>]
ExpectedHashes == [i \in 1..NumAccounts |-> stored_accounts[i].account.hash]

\* 0-based positions whose footprint is greater than the budget less the
\* footprints of all earlier accounts
Deficits == {k \in 0..(NumAccounts - 1) : SizeAt(k) > budget - SumSizes(k)}
FirstDeficit ==
    IF Deficits = {} THEN NumAccounts
    ELSE CHOOSE k \in Deficits : \A m \in Deficits : k <= m

Called(storage) == got[storage] # None
Result(storage) == got[storage][1]

\* how often pubkey p occurs in a slice of (pubkey, account, slot) triples
Occurrences(triples, p) == Cardinality({i \in 1..Len(triples) : triples[i][1] = p})

\* C1: get(Primary) and get(Overflow) are the ranges [0, index_first_item_overflow)
\* and [index_first_item_overflow, len) of the flat lists in iteration order; the
\* lengths add up to the input's, every input account is in exactly one of the
\* two groups, and records and hashes of a selector are index-aligned.
C1_ContiguousPartition ==
    pc # "for_each" =>
        /\ index_first_item_overflow \in 0..NumAccounts
        /\ Called("Primary") =>
              /\ ~Result("Primary").panic
              /\ Result("Primary").accounts =
                    SubSeq(ExpectedAccounts, 1, index_first_item_overflow)
              /\ Result("Primary").hashes =
                    SubSeq(ExpectedHashes, 1, index_first_item_overflow)
        /\ Called("Overflow") =>
              /\ ~Result("Overflow").panic
              /\ Result("Overflow").accounts =
                    SubSeq(ExpectedAccounts, index_first_item_overflow + 1, NumAccounts)
              /\ Result("Overflow").hashes =
                    SubSeq(ExpectedHashes, index_first_item_overflow + 1, NumAccounts)
        /\ \A s \in StorageSelector : Called(s) =>
              /\ Len(Result(s).accounts) = Len(Result(s).hashes)
              /\ \A i \in 1..Len(Result(s).accounts) :
                    Result(s).hashes[i] = Result(s).accounts[i][2].hash
        /\ (Called("Primary") /\ Called("Overflow")) =>
              /\ Len(Result("Primary").accounts) + Len(Result("Overflow").accounts)
                    = NumAccounts
              /\ Result("Primary").accounts \o Result("Overflow").accounts
                    = ExpectedAccounts
              /\ \A i \in 1..NumAccounts :
                    Occurrences(Result("Primary").accounts,
                                stored_accounts[i].account.pubkey)
                    + Occurrences(Result("Overflow").accounts,
                                  stored_accounts[i].account.pubkey) = 1

C1_Witness ==
    /\ pc = "got"
    /\ Called("Primary") /\ Called("Overflow")
    /\ Len(Result("Primary").accounts) > 0
    /\ Len(Result("Overflow").accounts) > 1

\* C2: the split is one-shot. While the loop runs and after it,
\* index_first_item_overflow is the position of the first account whose
\* footprint is greater than what the earlier accounts left of the budget (an
\* equal footprint fits) as soon as that account has been processed, and the
\* number of accounts before; no later account moves it, and every account at
\* or after it is in Overflow.
C2_OneShotSplit ==
    /\ index_first_item_overflow =
          IF FirstDeficit < Len(hashes) THEN FirstDeficit ELSE NumAccounts
    /\ pc # "for_each" => index_first_item_overflow = FirstDeficit
    /\ Called("Overflow") =>
          /\ ~Result("Overflow").panic
          /\ Result("Overflow").accounts =
                SubSeq(ExpectedAccounts, FirstDeficit + 1, NumAccounts)
    /\ Called("Primary") =>
          /\ ~Result("Primary").panic
          /\ Result("Primary").accounts = SubSeq(ExpectedAccounts, 1, FirstDeficit)

\* after the split comes an account that would fit in what was left of the
\* budget, and it is in Overflow
C2_Witness ==
    /\ pc = "got"
    /\ Called("Overflow")
    /\ FirstDeficit < NumAccounts
    /\ \E j \in (FirstDeficit + 1)..(NumAccounts - 1) :
          /\ SizeAt(j) > 0
          /\ SizeAt(j) <= budget - SumSizes(FirstDeficit)
          /\ Result("Overflow").accounts[j - FirstDeficit + 1] = ExpectedAccounts[j + 1]

\* C3: when the footprints of all accounts sum to at most available_bytes,
\* Overflow is empty and Primary holds every account.
C3_AllFitNoOverflow ==
    (pc # "for_each" /\ SumSizes(NumAccounts) <= budget) =>
        /\ index_first_item_overflow = NumAccounts
        /\ Called("Overflow") =>
              /\ ~Result("Overflow").panic
              /\ Result("Overflow").accounts = <<>>
              /\ Result("Overflow").hashes = <<>>
        /\ Called("Primary") =>
              /\ ~Result("Primary").panic
              /\ Result("Primary").accounts = ExpectedAccounts
              /\ Result("Primary").hashes = ExpectedHashes

\* the footprints use up the budget exactly
C3_Witness ==
    /\ pc = "got"
    /\ Called("Primary") /\ Called("Overflow")
    /\ NumAccounts >= 2
    /\ budget > 0
    /\ SumSizes(NumAccounts) = budget
    /\ Result("Overflow").accounts = <<>>

\* the accounts processed so far that are on the primary side of the split
PrimarySoFar ==
    IF index_first_item_overflow < Len(hashes)
    THEN index_first_item_overflow ELSE Len(hashes)

\* the footprint of the account that triggered overflow, 0 when none has
TriggerSize ==
    IF index_first_item_overflow < NumAccounts
    THEN SizeAt(index_first_item_overflow) ELSE 0

\* C4: at every point of one call of new(), the footprints of the accounts
\* assigned to the primary group sum to at most the original available_bytes
\* plus the footprint of the account that triggered overflow.
C4_PrimaryWithinBudget ==
    SumSizes(PrimarySoFar) <= budget + TriggerSize

C4_Witness ==
    /\ pc = "built"
    /\ index_first_item_overflow < NumAccounts
    /\ index_first_item_overflow > 0
    /\ SumSizes(index_first_item_overflow) > 0
    /\ SumSizes(index_first_item_overflow) < budget

\* 0-based positions of the accounts that alone exceed the budget
Oversized == {k \in 0..(NumAccounts - 1) : SizeAt(k) > budget}
TheOversized == CHOOSE k \in Oversized : TRUE

\* C8 as stated: a single oversized account is the sole member of Overflow and
\* Primary is exactly everything before it, wherever it is in the order.
C8_SoleOverflowMember ==
    (pc # "for_each" /\ Cardinality(Oversized) = 1) =>
        /\ index_first_item_overflow = TheOversized
        /\ NumAccounts - index_first_item_overflow = 1
        /\ Called("Overflow") =>
              Result("Overflow").accounts = <<ExpectedAccounts[TheOversized + 1]>>
        /\ Called("Primary") =>
              Result("Primary").accounts = SubSeq(ExpectedAccounts, 1, TheOversized)

\* C8 amended: a single oversized account is in Overflow together with every
\* account after it; Primary is exactly everything before it when the accounts
\* before it fit in the budget together; it is the sole member of Overflow
\* when, in addition, it is the last account of the iteration order.
C8_OversizedStartsOverflow ==
    (pc # "for_each" /\ Cardinality(Oversized) = 1) =>
        /\ index_first_item_overflow <= TheOversized
        /\ Called("Overflow") =>
              /\ Len(Result("Overflow").accounts) >= NumAccounts - TheOversized
              /\ \A j \in TheOversized..(NumAccounts - 1) :
                    \E i \in 1..Len(Result("Overflow").accounts) :
                        Result("Overflow").accounts[i] = ExpectedAccounts[j + 1]
        /\ SumSizes(TheOversized) <= budget =>
              /\ index_first_item_overflow = TheOversized
              /\ Called("Primary") =>
                    Result("Primary").accounts = SubSeq(ExpectedAccounts, 1, TheOversized)
              /\ Called("Overflow") =>
                    Result("Overflow").accounts =
                        SubSeq(ExpectedAccounts, TheOversized + 1, NumAccounts)
              /\ (TheOversized = NumAccounts - 1 /\ Called("Overflow")) =>
                    Result("Overflow").accounts = <<ExpectedAccounts[TheOversized + 1]>>

\* the oversized account in the middle, the accounts before it fitting
C8_Witness ==
    /\ pc = "got"
    /\ Called("Primary") /\ Called("Overflow")
    /\ Cardinality(Oversized) = 1
    /\ TheOversized > 0
    /\ TheOversized < NumAccounts - 1
    /\ SumSizes(TheOversized) <= budget
    /\ Len(Result("Overflow").accounts) = NumAccounts - TheOversized

\* ------------------------------------------------ properties of the oracle
\* C9: is_ancient(s) is true iff s.capacity() is at least the ancient capacity
\* (false one byte below it, true at it and one byte above it); is_full_ancient(s)
\* is true iff s is ancient and has fewer than 10_000 bytes remaining, so it is
\* false for every non-ancient append vec and for an ancient one just created.
C9_OracleBoundaries ==
    probe # None =>
        LET s == probe[1].storage
            ancient == s.capacity >= MAXIMUM_APPEND_VEC_FILE_SIZE - 2048
        IN /\ probe[1].fn = "is_ancient" =>
                /\ probe[1].ret = ancient
                /\ s.capacity = MAXIMUM_APPEND_VEC_FILE_SIZE - 2048 - 1 => ~probe[1].ret
                /\ s.capacity = MAXIMUM_APPEND_VEC_FILE_SIZE - 2048 => probe[1].ret
                /\ s.capacity = MAXIMUM_APPEND_VEC_FILE_SIZE - 2048 + 1 => probe[1].ret
           /\ probe[1].fn = "is_full_ancient" =>
                /\ probe[1].ret = (ancient /\ s.remaining_bytes < 10000)
                /\ ~ancient => ~probe[1].ret
                /\ s.remaining_bytes = s.capacity => ~probe[1].ret

\* a non-ancient append vec that has no room left
C9_Witness ==
    /\ probe # None
    /\ probe[1].fn = "is_full_ancient"
    /\ probe[1].storage.capacity = MAXIMUM_APPEND_VEC_FILE_SIZE - 2048 - 1
    /\ probe[1].storage.remaining_bytes = 10000 - 1
    /\ ~probe[1].ret

\* ------------------- properties of should_move_to_ancient_append_vec
\* the latest call: its arguments, *current_ancient on entry, the value returned
TheCall == call[1]
LoneStorage == TheCall.all_storages[1]
OneStorage == Len(TheCall.all_storages) = 1
LoneIsAncient == LoneStorage.accounts.capacity >= MAXIMUM_APPEND_VEC_FILE_SIZE - 2048
LoneIsFull == LoneIsAncient /\ LoneStorage.accounts.remaining_bytes < 10000

\* C5: called with current_ancient empty and a slot whose only segment is
\* ancient and not full, the function returns false and sets current_ancient to
\* (that slot, that segment); called while current_ancient is set, with any slot
\* and any segments, it returns true and leaves current_ancient as it was.
C5_AdoptThenMigrate ==
    call # None =>
        /\ (is_none(TheCall.before) /\ OneStorage /\ LoneIsAncient /\ ~LoneIsFull) =>
              /\ TheCall.ret = FALSE
              /\ current_ancient = Some(<<TheCall.slot, LoneStorage.id>>)
        /\ ~is_none(TheCall.before) =>
              /\ TheCall.ret = TRUE
              /\ current_ancient = TheCall.before

\* a later call for another slot, whose only segment is another ancient
\* segment that is not full
C5_Witness ==
    /\ call # None
    /\ ~is_none(TheCall.before)
    /\ TheCall.before[1][1] # TheCall.slot
    /\ OneStorage /\ LoneIsAncient /\ ~LoneIsFull
    /\ LoneStorage.id # TheCall.before[1][2]
    /\ TheCall.ret = TRUE
    /\ current_ancient = TheCall.before

\* C6: called with current_ancient empty and a slot whose only segment is
\* ancient and full, the function returns false and current_ancient stays empty.
C6_FullAncientSkipped ==
    (call # None /\ is_none(TheCall.before) /\ OneStorage /\ LoneIsFull) =>
        /\ TheCall.ret = FALSE
        /\ current_ancient = None

C6_Witness ==
    /\ call # None
    /\ is_none(TheCall.before)
    /\ OneStorage /\ LoneIsFull
    /\ LoneStorage.accounts.remaining_bytes = 10000 - 1
    /\ TheCall.ret = FALSE
    /\ current_ancient = None

\* C7: when the slot does not have exactly one segment, or its only segment is
\* not ancient, the function returns true and current_ancient is unchanged,
\* whether current_ancient was empty or set.
C7_OtherwiseMigrate ==
    (call # None /\ (~OneStorage \/ ~LoneIsAncient)) =>
        /\ TheCall.ret = TRUE
        /\ current_ancient = TheCall.before

\* two segments, the first ancient and not full, current_ancient empty
C7_Witness ==
    /\ call # None
    /\ is_none(TheCall.before)
    /\ Len(TheCall.all_storages) = 2
    /\ LoneIsAncient /\ ~LoneIsFull
    /\ TheCall.ret = TRUE
    /\ current_ancient = None

\* a step that changes current_ancient sets it from empty to the slot and the
\* only segment of the call that made the step, ancient and not full then
SetOnce ==
    current_ancient' # current_ancient =>
        /\ current_ancient = None
        /\ call' # None
        /\ call'[1].before = None
        /\ Len(call'[1].all_storages) = 1
        /\ current_ancient' = Some(<<call'[1].slot, call'[1].all_storages[1].id>>)
        /\ call'[1].all_storages[1].accounts = entries[call'[1].all_storages[1].id]
        /\ entries[call'[1].all_storages[1].id].capacity
              >= MAXIMUM_APPEND_VEC_FILE_SIZE - 2048
        /\ entries[call'[1].all_storages[1].id].remaining_bytes >= 10000

\* a call returns false only with current_ancient empty on entry and a slot
\* of exactly one segment, which is ancient
FalseOnlyForLoneAncient ==
    (call # None /\ TheCall.ret = FALSE) =>
        /\ is_none(TheCall.before)
        /\ OneStorage
        /\ LoneIsAncient

\* C10: over any sequence of calls threading one current_ancient that starts
\* empty, current_ancient changes only from empty to set (so at most once, and
\* is never cleared or replaced); it is set to the slot and the only segment of
\* the call that sets it, a segment ancient and not full at that moment; and a
\* call returns false only if current_ancient was empty on entry and the slot
\* had exactly one segment, an ancient one.
C10_SetAtMostOnce == [][SetOnce]_vars /\ []FalseOnlyForLoneAncient

\* current_ancient was set by an earlier call; the segment it names has filled
\* up since, and a later call has left it in place
C10_Witness ==
    /\ call # None
    /\ ~is_none(TheCall.before)
    /\ current_ancient = TheCall.before
    /\ entries[current_ancient[1][2]].remaining_bytes < 10000
    /\ OneStorage /\ LoneIsAncient /\ ~LoneIsFull

\* ------------------------------------------------------- specifications
Init ==
    /\ InitStoreVars
    /\ entries = [id \in AppendVecIds |-> NewAppendVec(get_ancient_append_vec_capacity)]
    /\ current_ancient = None
    /\ call = None
    /\ probe = None

Next == ForEach \/ NewReturn \/ Get

Spec == Init /\ [][Next]_vars

InitOracle ==
    /\ IdleStoreVars
    /\ InitEntries
    /\ current_ancient = None
    /\ call = None
    /\ probe = None

NextOracle == AppendAccounts \/ CallIsAncient \/ CallIsFullAncient

SpecOracle == InitOracle /\ [][NextOracle]_vars

InitAncient ==
    /\ IdleStoreVars
    /\ InitEntriesAtBoundary
    /\ current_ancient = None
    /\ call = None
    /\ probe = None

NextAncient == AppendAccountsToAncient \/ ShouldMove

SpecAncient == InitAncient /\ [][NextAncient]_vars
====
